---- MODULE Spec2Model ----
(***************************************************************************)
(* The dispatch orchestrator of aiogoogle (aiogoogle/client.py, class      *)
(* Aiogoogle) and the construction check of its session contract           *)
(* (aiogoogle/sessions/abc.py, AbstractSession.__new__).                   *)
(*                                                                         *)
(* Scheduling is asyncio's: one coroutine runs at a time and control       *)
(* changes hands only at an await that really suspends.  Every action      *)
(* below is one such uninterrupted segment of a coroutine: from its entry  *)
(* (or from the resumption of an await) to the next suspending await, to   *)
(* its return or to the exception that leaves it.  The awaits that suspend *)
(* are the network ones: oauth2.refresh and active_session.send.           *)
(* `await self._ensure_session_set()` runs a coroutine that holds no await *)
(* of its own, so it never yields to the event loop.                       *)
(***************************************************************************)
EXTENDS Integers, Sequences, FiniteSets

\* ---------------------------------------------------------------- bounds
\* Number of coroutine slots: calls of the entry points made on one
\* orchestrator, any of which may overlap.
MaxCalls == 2
\* Longest batch of Requests handed to one dispatch call.
MaxBatch == 2

Slots == 1..MaxCalls

\* ------------------------------------------------------- Python's values
\* Python's None.  Every other optional value is a record, so that
\* `x = None` is always a comparison of two records.
None == [none |-> TRUE]

\* A Request as a Method manufactures it: no authorization attached.
Request(i) == [id |-> i, authorization |-> None, key |-> None]

\* The batch r1, ..., rn of pairwise different Requests.
Batch(n) == [i \in 1..n |-> Request(i)]

\* The batches a dispatch call is given: a single Request, and the longest
\* batch.
Batches == {Batch(n) : n \in {1, MaxBatch}}

\* UserCreds: whose they are, the access token, and whether the expiry
\* timestamp lies before now + margin.  Token 0 is the one the caller
\* supplied; the token a refresh exchange issues is named after the
\* exchange (see refresh).
Alice(expired) == [user |-> "alice", access_token |-> 0, expired |-> expired]

Bob(expired) == [user |-> "bob", access_token |-> 0, expired |-> expired]

\* Values of the constructor's user_creds argument.
StoredUserCreds == {None, Alice(TRUE), Alice(FALSE)}

\* Values of as_user's user_creds argument.
UserCredsOverrides == {None, Bob(TRUE), Bob(FALSE)}

\* Values of the constructor's api_key argument.
StoredApiKeys == {None, [api_key |-> "default"]}

\* Values of as_api_key's api_key argument.
ApiKeyOverrides == {None, [api_key |-> "override"]}

\* The constructor's api_key and user_creds arguments together: a client is
\* built with credentials of both kinds or of neither (the two attributes are
\* read by different entry points and never together).
Constructions ==
    {given \in [api_key : StoredApiKeys, user_creds : StoredUserCreds] :
        (given.api_key = None) <=> (given.user_creds = None)}

\* Values of the constructor's session_factory argument: a subclass of
\* AbstractSession whose send is, or is not, a coroutine function.
SessionClasses == {[send_is_coroutine |-> TRUE], [send_is_coroutine |-> FALSE]}

VARIABLES
    session_factory,   \* self.session_factory
    active_session,    \* self.active_session: None or [id |-> n]
    api_key,           \* self.api_key
    user_creds,        \* self.user_creds
    client_creds,      \* self.client_creds
    sessions,          \* every Session the factory has returned, by id
    factory_calls,     \* invocations of self.session_factory()
    calls              \* the coroutine frame of each slot

vars == <<session_factory, active_session, api_key, user_creds, client_creds,
          sessions, factory_calls, calls>>

\* The frame of a slot nothing has been called in yet.
IdleFrame ==
    [op |-> "idle", pc |-> "idle",
     requests |-> <<>>,        \* *requests
     override |-> None,        \* the user_creds= / api_key= argument
     resolved |-> None,        \* what `user_creds or self.user_creds` gave
     user_creds |-> None,      \* as_user's local user_creds
     expiry_checks |-> 0,      \* calls of oauth2.is_expired
     saw_expired |-> FALSE,    \* what is_expired answered
     refreshes |-> 0,          \* refresh exchanges begun
     refresh_out |-> [done |-> FALSE, error |-> "", value |-> None],
                               \* what oauth2.refresh returned or raised
     factory_calls |-> 0,      \* session_factory() invocations by this call
     authorized |-> <<>>,      \* authorized_requests
     sends |-> 0,              \* invocations of active_session.send
     sent |-> <<>>,            \* the batch handed to active_session.send
     session |-> None,         \* the Session it was handed to
     send_out |-> [done |-> FALSE, error |-> "", value |-> <<>>],
                               \* what active_session.send returned or raised
     api_version |-> None,     \* discover's api_version argument
     stage |-> "",             \* the Discovery Service method being awaited
     anon_calls |-> <<>>,      \* the Requests discover and list_api have
                               \* called as_anon with, in order
     discovery_list |-> None,  \* discover's discovery_list
     result |-> <<>>,          \* what the entry point returned
     error |-> ""]             \* what the entry point raised

Init ==
    /\ session_factory \in SessionClasses
    /\ active_session = None
    /\ \E given \in Constructions :
        /\ api_key = given.api_key
        /\ user_creds = given.user_creds
    /\ client_creds = [client_id |-> "app"]
    /\ sessions = <<>>
    /\ factory_calls = 0
    /\ calls = [c \in Slots |-> IdleFrame]

\* ------------------------------------------------ the credential managers
\* Oauth2Manager.is_expired: the comparison of the expiry timestamp with
\* the current time plus the margin, here the flag the UserCreds carries.
is_expired(creds) == creds.expired

\* Oauth2Manager.refresh, when the token endpoint accepts the exchange: the
\* same UserCreds with a new access token and a new expiry; every other
\* field kept.  The new token is named after the exchange that issued it.
refresh(creds, exchange) ==
    [creds EXCEPT !.access_token = exchange, !.expired = FALSE]

\* What awaiting oauth2.refresh can end in: the refreshed UserCreds, or the
\* error the token endpoint's rejection raises.
RefreshOutcomes(creds, exchange) ==
    {[done |-> TRUE, error |-> "", value |-> refresh(creds, exchange)],
     [done |-> TRUE, error |-> "AuthError", value |-> None]}

\* Oauth2Manager.authorize: the Request with the bearer token attached.
oauth2_authorize(request, creds) ==
    [request EXCEPT !.authorization = [bearer |-> creds.access_token,
                                       user |-> creds.user]]

\* ApiKeyManager.authorize: the Request with the key injected.
api_key_authorize(request, key) == [request EXCEPT !.key = key]

\* ------------------------------------------------------------ the Session
\* AbstractSession.__new__ without its test of the class's methods.
AbstractSession_new_unchecked(cls) == ""

\* AbstractSession.__new__: every coroutine function of AbstractSession
\* (send is the only one) must be a coroutine function of the class being
\* constructed, or construction raises RuntimeError.
AbstractSession_new(cls) ==
    IF ~cls.send_is_coroutine THEN "RuntimeError" ELSE ""

\* A Session as the factory returns it: not yet entered.
NewSession == [enters |-> 0, exits |-> 0]

\* The Responses to a batch, one per Request and in the order of the batch.
Responses(batch) == [i \in 1..Len(batch) |-> [to |-> batch[i], status |-> 200]]

\* What awaiting active_session.send can end in: the Responses, the error of
\* a non-success status, or the timeout bound to the call.
SendOutcomes(batch) ==
    {[done |-> TRUE, error |-> "", value |-> Responses(batch)],
     [done |-> TRUE, error |-> "HTTPError", value |-> <<>>],
     [done |-> TRUE, error |-> "TimeoutError", value |-> <<>>]}

\* ------------------------------------------------------- the orchestrator
\* The part of the state _ensure_session_set reads and writes, with the
\* exception it leaves by ("" when it returns).
World ==
    [active_session |-> active_session, sessions |-> sessions,
     factory_calls |-> factory_calls, error |-> ""]

\* self.session_factory(): one invocation, which returns a new Session or
\* raises what the construction check raises.
session_factory_call(w) ==
    IF AbstractSession_new(session_factory) # ""
    THEN [w EXCEPT !.factory_calls = @ + 1,
                   !.error = AbstractSession_new(session_factory)]
    ELSE [w EXCEPT !.factory_calls = @ + 1,
                   !.sessions = Append(@, NewSession),
                   !.active_session = [id |-> Len(w.sessions) + 1]]

\* _ensure_session_set without its `is None` test: a session per call.
ensure_session_unguarded(w) == session_factory_call(w)

\* _ensure_session_set making a fresh session once a call has timed out.
ensure_session_after_timeout(w) ==
    IF w.active_session = None
       \/ \E c \in Slots : calls[c].error = "TimeoutError"
    THEN session_factory_call(w)
    ELSE w

\* _ensure_session_set making a fresh session once the active one has been
\* released.
ensure_session_reopened(w) ==
    IF w.active_session = None
       \/ w.sessions[w.active_session.id].exits > 0
    THEN session_factory_call(w)
    ELSE w

\* Aiogoogle._ensure_session_set
_ensure_session_set(w) ==
    IF w.active_session = None THEN session_factory_call(w) ELSE w

\* `user_creds or self.user_creds`: every UserCreds here is a non-empty
\* mapping, so it is falsy exactly when it is None.
resolve_user_creds(override, stored) ==
    IF override # None THEN override ELSE stored

\* as_user's `if user_creds is None`
user_creds_missing(creds) == creds = None

\* as_user with the expiry test never true: no refresh before use.
must_refresh_never(creds) == FALSE

\* as_user with a single-flight guard: no refresh of credentials another
\* call is already refreshing.
must_refresh_single_flight(creds) ==
    /\ is_expired(creds) = TRUE
    /\ ~\E d \in Slots : calls[d].pc = "refresh" /\ calls[d].resolved = creds

\* as_user refreshing whatever credentials it has.
must_refresh_always(creds) == TRUE

\* as_user's `if self.oauth2.is_expired(user_creds) is True`
must_refresh(creds) == is_expired(creds) = TRUE

\* as_user's `if self.user_creds is not None: self.user_creds = user_creds`:
\* the new value of self.user_creds.
write_back(stored, refreshed) ==
    IF stored # None THEN refreshed ELSE stored

\* as_user authorizing the batch back to front.
authorize_as_user_reversed(requests, creds) ==
    [i \in 1..Len(requests) |->
        oauth2_authorize(requests[Len(requests) + 1 - i], creds)]

\* as_user authorizing with self.user_creds, read when the batch is built.
authorize_as_user_stored(requests, creds) ==
    [i \in 1..Len(requests) |->
        oauth2_authorize(requests[i],
                         IF user_creds # None THEN user_creds ELSE creds)]

\* as_user's authorized_requests
authorize_as_user(requests, creds) ==
    [i \in 1..Len(requests) |-> oauth2_authorize(requests[i], creds)]

\* as_api_key without its test for a missing key.
api_key_unchecked(stored, override) == FALSE

\* as_api_key's `if self.api_key is None`: the api_key argument is not read.
api_key_missing(stored, override) == stored = None

\* The key as_api_key authorizes with: self.api_key, whatever was passed.
api_key_used(stored, override) == stored

\* as_api_key's authorized_requests
authorize_as_api_key(requests, key) ==
    [i \in 1..Len(requests) |-> api_key_authorize(requests[i], key)]

\* as_anon hands *requests on as they are.
authorize_as_anon(requests) == requests

\* ------------------------------------------------------------ the actions
\* Slot c holds the c-th call made on the orchestrator.
CanStart(c) ==
    /\ calls[c].pc = "idle"
    /\ \A b \in Slots : b < c => calls[b].pc # "idle"

\* The frame of a call of entry point op.
Entered(op, requests, override) ==
    [IdleFrame EXCEPT !.op = op, !.requests = requests, !.override = override]

\* The frame f left by exception err.
Raised(f, err) == [f EXCEPT !.pc = "raised", !.error = err]

\* Aiogoogle.send, up to the suspension in active_session.send: the session
\* is ensured and the batch handed to it, in one uninterrupted segment.
\* The keyword arguments (timeout, full_res, session_factory) are handed on
\* as they came and touch no state; a call of send made directly is a call
\* of as_anon.
send(c, f, batch) ==
    LET w == _ensure_session_set(World)
        g == [f EXCEPT !.authorized = batch,
                       !.factory_calls = @ + w.factory_calls - factory_calls]
    IN  /\ active_session' = w.active_session
        /\ sessions' = w.sessions
        /\ factory_calls' = w.factory_calls
        /\ calls' = [calls EXCEPT ![c] =
                        IF w.error # ""
                        THEN Raised(g, w.error)
                        ELSE [g EXCEPT !.pc = "send",
                                       !.sends = @ + 1,
                                       !.sent = batch,
                                       !.session = w.active_session]]

\* send trying the batch once more when the Session raises.
send_retried(f, out) ==
    IF out.error # "" /\ f.sends < 2
    THEN [f EXCEPT !.sends = @ + 1, !.send_out = out]
    ELSE IF out.error # ""
    THEN Raised([f EXCEPT !.send_out = out], out.error)
    ELSE [f EXCEPT !.pc = "returned", !.send_out = out, !.result = out.value]

\* `return await self.active_session.send(...)` resumed with outcome out:
\* the frame the entry point is left with.
send_resumed(f, out) ==
    IF out.error # ""
    THEN Raised([f EXCEPT !.send_out = out], out.error)
    ELSE [f EXCEPT !.pc = "returned", !.send_out = out, !.result = out.value]

\* The await of active_session.send ends, and with it the entry point
\* (discover goes on after its list_api: see discover_listed).
send_returns(c) ==
    /\ calls[c].pc = "send"
    /\ calls[c].stage # "list_for_discover"
    /\ \E out \in SendOutcomes(calls[c].sent) :
           calls' = [calls EXCEPT ![c] = send_resumed(calls[c], out)]
    /\ UNCHANGED <<session_factory, active_session, api_key, user_creds,
                   client_creds, sessions, factory_calls>>

\* as_user returning None where it finds no credentials.
no_user_creds_returned(f) == [f EXCEPT !.pc = "returned"]

\* as_user's `raise TypeError("No user credentials were found")`
no_user_creds(f) == Raised(f, "TypeError")

\* Aiogoogle.as_user, from its entry to its first suspension.
as_user(c) ==
    /\ CanStart(c)
    /\ \E requests \in Batches, override \in UserCredsOverrides :
        LET creds == resolve_user_creds(override, user_creds)
            f == [Entered("as_user", requests, override)
                     EXCEPT !.resolved = creds, !.user_creds = creds]
        IN  IF user_creds_missing(creds)
            THEN /\ calls' = [calls EXCEPT ![c] = no_user_creds(f)]
                 /\ UNCHANGED <<active_session, sessions, factory_calls>>
            ELSE IF must_refresh(creds)
            THEN /\ calls' = [calls EXCEPT ![c] =
                                [f EXCEPT !.pc = "refresh",
                                          !.expiry_checks = @ + 1,
                                          !.saw_expired = TRUE,
                                          !.refreshes = @ + 1]]
                 /\ UNCHANGED <<active_session, sessions, factory_calls>>
            ELSE send(c, [f EXCEPT !.expiry_checks = @ + 1],
                      authorize_as_user(requests, creds))
    /\ UNCHANGED <<session_factory, api_key, user_creds, client_creds>>

\* as_user trying the refresh exchange once more when it fails.
refresh_retried(f, err) ==
    IF f.refreshes < 2 THEN [f EXCEPT !.refreshes = @ + 1] ELSE Raised(f, err)

\* `user_creds = await self.oauth2.refresh(...)` resumed by exception err:
\* nothing catches it.
refresh_raised(f, err) == Raised(f, err)

\* Aiogoogle.as_user, from the end of the refresh exchange on.
as_user_refreshed(c) ==
    /\ calls[c].pc = "refresh"
    /\ \E out \in RefreshOutcomes(calls[c].user_creds, c) :
        LET f == [calls[c] EXCEPT !.refresh_out = out]
        IN  IF out.error # ""
            THEN /\ calls' = [calls EXCEPT ![c] = refresh_raised(f, out.error)]
                 /\ UNCHANGED <<active_session, sessions, factory_calls,
                                user_creds>>
            ELSE /\ user_creds' = write_back(user_creds, out.value)
                 /\ send(c, [f EXCEPT !.user_creds = out.value],
                         authorize_as_user(f.requests, out.value))
    /\ UNCHANGED <<session_factory, api_key, client_creds>>

\* Aiogoogle.as_api_key, from its entry to its suspension.
as_api_key(c) ==
    /\ CanStart(c)
    /\ \E requests \in Batches, override \in ApiKeyOverrides :
        LET f == Entered("as_api_key", requests, override)
        IN  IF api_key_missing(api_key, override)
            THEN /\ calls' = [calls EXCEPT ![c] = Raised(f, "TypeError")]
                 /\ UNCHANGED <<active_session, sessions, factory_calls>>
            ELSE send(c, f, authorize_as_api_key(
                                requests, api_key_used(api_key, override)))
    /\ UNCHANGED <<session_factory, api_key, user_creds, client_creds>>

\* Aiogoogle.as_anon, from its entry to its suspension.
as_anon(c) ==
    /\ CanStart(c)
    /\ \E requests \in Batches :
        send(c, Entered("as_anon", requests, None), authorize_as_anon(requests))
    /\ UNCHANGED <<session_factory, api_key, user_creds, client_creds>>

\* Aiogoogle.__aenter__: the session is ensured, then entered.
aenter(c) ==
    /\ CanStart(c)
    /\ LET w == _ensure_session_set(World)
           f == [Entered("scope", <<>>, None)
                    EXCEPT !.factory_calls = w.factory_calls - factory_calls]
       IN  /\ active_session' = w.active_session
           /\ factory_calls' = w.factory_calls
           /\ IF w.error # ""
              THEN /\ sessions' = w.sessions
                   /\ calls' = [calls EXCEPT ![c] = Raised(f, w.error)]
              ELSE /\ sessions' = [w.sessions EXCEPT
                                      ![w.active_session.id].enters = @ + 1]
                   /\ calls' = [calls EXCEPT ![c] =
                                   [f EXCEPT !.pc = "entered",
                                             !.session = w.active_session]]
    /\ UNCHANGED <<session_factory, api_key, user_creds, client_creds>>

\* The ways the body of a scope ends: normally (""), or by an exception, as
\* when a dispatch inside it fails.
BodyOutcomes == {"", "HTTPError"}

\* __aexit__ releasing the Session only when the body ended normally.
release_unless_failed(ss, active, exc) ==
    IF exc # "" THEN ss ELSE [ss EXCEPT ![active.id].exits = @ + 1]

\* __aexit__'s `await self.active_session.__aexit__(*args)`: the Sessions
\* after the active one has released its resources, whatever *args says.
release(ss, active, exc) == [ss EXCEPT ![active.id].exits = @ + 1]

\* Aiogoogle.__aexit__, which `async with` runs on every way out of the body
\* of a scope that was entered.  It returns None, so an exception of the
\* body goes on to the caller.
aexit(c) ==
    /\ calls[c].pc = "entered"
    /\ active_session # None
    /\ \E exc \in BodyOutcomes :
          /\ sessions' = release(sessions, active_session, exc)
          /\ calls' = [calls EXCEPT ![c] =
                          IF exc # "" THEN Raised(@, exc)
                          ELSE [@ EXCEPT !.pc = "returned"]]
    /\ UNCHANGED <<session_factory, active_session, api_key, user_creds,
                   client_creds, factory_calls>>

\* ---------------------------------------------------- Discovery Service
\* The api_name discover and list_api are called with.
ApiName == "youtube"

\* Values of discover's api_version argument: None, or a version.
ApiVersions == {None, [version |-> "v3"]}

\* discovery_service.apis.list(name=, preferred=, fields=None)
apis_list(name, preferred) ==
    [method |-> "apis.list", name |-> name, preferred |-> preferred,
     authorization |-> None, key |-> None]

\* discovery_service.apis.getRest(api=, version=, validate=False)
apis_getRest(api, version) ==
    [method |-> "apis.getRest", api |-> api, version |-> version,
     authorization |-> None, key |-> None]

\* What awaiting the list request can end in: a directory list whose items
\* are the versions of the API, preferred first, or are none; or an error of
\* the transport.
ListOutcomes(name) ==
    {[done |-> TRUE, error |-> "",
      value |-> [items |-> <<[name |-> name, version |-> "v4"],
                             [name |-> name, version |-> "v3"]>>]],
     [done |-> TRUE, error |-> "", value |-> [items |-> <<>>]],
     [done |-> TRUE, error |-> "HTTPError", value |-> [items |-> <<>>]]}

\* Aiogoogle.list_api, from its entry to its suspension in as_anon.
list_api(c) ==
    /\ CanStart(c)
    /\ \E preferred \in BOOLEAN :
        LET request == apis_list(ApiName, preferred)
        IN  send(c, [Entered("list_api", <<request>>, None)
                        EXCEPT !.stage = "list",
                               !.anon_calls = <<request>>],
                 authorize_as_anon(<<request>>))
    /\ UNCHANGED <<session_factory, api_key, user_creds, client_creds>>

\* discover's first Request: getRest for the version it was given, or, given
\* none, list_api(api_name, preferred=True).
first_request(api_name, api_version) ==
    IF api_version = None
    THEN apis_list(api_name, TRUE)
    ELSE apis_getRest(api_name, api_version.version)

\* Aiogoogle.discover, from its entry to its first suspension.
discover(c) ==
    /\ CanStart(c)
    /\ \E api_version \in ApiVersions :
        LET request == first_request(ApiName, api_version)
        IN  send(c, [Entered("discover", <<>>, None)
                        EXCEPT !.api_version = api_version,
                               !.stage = IF api_version = None
                                         THEN "list_for_discover"
                                         ELSE "getRest",
                               !.anon_calls = <<request>>],
                 authorize_as_anon(<<request>>))
    /\ UNCHANGED <<session_factory, api_key, user_creds, client_creds>>

\* discover's `if discovery_list["items"]`
has_items(discovery_list) == discovery_list.items # <<>>

\* discover taking the last listed item for the best match.
getRest_of_last(discovery_list) ==
    apis_getRest(discovery_list.items[Len(discovery_list.items)].name,
                 discovery_list.items[Len(discovery_list.items)].version)

\* discover's getRest for the name and version of items[0]
getRest_of_first(discovery_list) ==
    apis_getRest(discovery_list.items[1].name, discovery_list.items[1].version)

\* Aiogoogle.discover, from the end of its list_api on.
discover_listed(c) ==
    /\ calls[c].pc = "send"
    /\ calls[c].stage = "list_for_discover"
    /\ \E out \in ListOutcomes(ApiName) :
        LET f == [calls[c] EXCEPT !.send_out = [out EXCEPT !.value = <<>>],
                                  !.discovery_list =
                                      IF out.error = "" THEN out.value ELSE @]
        IN  IF out.error # ""
            THEN /\ calls' = [calls EXCEPT ![c] = Raised(f, out.error)]
                 /\ UNCHANGED <<active_session, sessions, factory_calls>>
            ELSE IF has_items(out.value)
            THEN send(c, [f EXCEPT !.stage = "getRest",
                                   !.anon_calls =
                                       Append(@, getRest_of_first(out.value))],
                      authorize_as_anon(<<getRest_of_first(out.value)>>))
            ELSE /\ calls' = [calls EXCEPT ![c] = Raised(f, "ValueError")]
                 /\ UNCHANGED <<active_session, sessions, factory_calls>>
    /\ UNCHANGED <<session_factory, api_key, user_creds, client_creds>>

Next ==
    \E c \in Slots :
        \/ list_api(c)
        \/ discover(c)
        \/ discover_listed(c)
        \/ as_user(c)
        \/ as_user_refreshed(c)
        \/ as_api_key(c)
        \/ as_anon(c)
        \/ send_returns(c)
        \/ aenter(c)
        \/ aexit(c)

Spec == Init /\ [][Next]_vars

\* ============================================================== the claims
\* The frames of the dispatch entry points.
Dispatches == {c \in Slots : calls[c].op \in {"as_user", "as_api_key", "as_anon"}}

\* The calls the session factory's exception has left.
FailedConstructions == {c \in Slots : calls[c].error = "RuntimeError"}

\* C1, as claimed: under any interleaving of dispatch calls and scope
\* entries the session factory is invoked at most once.
C1_FactoryInvokedAtMostOnce == factory_calls <= 1

\* C1, amended: the session factory returns a Session at most once.  Once
\* it has, every later or overlapping call observes that Session and the
\* factory is not invoked again, so there are never two sessions and the one
\* there is is the active one; an invocation that raises creates no Session,
\* leaves active_session absent and fails its call, and only such
\* invocations are repeated.
C1_SessionCreatedAtMostOnce ==
    /\ Len(sessions) <= 1
    /\ active_session = (IF sessions = <<>> THEN None ELSE [id |-> 1])
    /\ factory_calls = Len(sessions) + Cardinality(FailedConstructions)
    /\ sessions # <<>> => FailedConstructions = {}
    /\ \A c \in Slots :
          /\ calls[c].factory_calls <= 1
          /\ calls[c].pc \in {"send", "entered", "returned"}
                => calls[c].session = active_session /\ active_session # None

\* C1's case: two calls overlap in Session.send, on the one Session a single
\* invocation of the factory made.
C1_Witness ==
    \E c, d \in Slots :
        /\ c # d
        /\ calls[c].pc = "send" /\ calls[d].pc = "send"
        /\ calls[c].session = calls[d].session
        /\ factory_calls = 1 /\ Len(sessions) = 1

\* C2: when a by-identity dispatch refreshes its credentials, the refreshed
\* UserCreds becomes the orchestrator's stored default only if the call used
\* the stored default; with an explicit user_creds override the stored
\* default is left as it was, whether or not there is one.
C2_OverrideNeverWrittenBack ==
    [][\A c \in Slots :
          (calls[c].pc = "refresh" /\ calls'[c].refresh_out.done
                                   /\ calls'[c].refresh_out.error = "")
              => user_creds' = (IF calls[c].override = None
                                THEN calls'[c].refresh_out.value
                                ELSE user_creds)]_vars

\* C3: by-key dispatch resolves the key as the api_key override if one is
\* passed, else the default key.  It fails for missing credentials only when
\* there is neither, and otherwise authorizes every Request of the batch
\* with the key so resolved.
C3_ApiKeyOverrideResolved ==
    \A c \in Slots :
        calls[c].op = "as_api_key" =>
            LET key == IF calls[c].override # None
                       THEN calls[c].override ELSE api_key
            IN  IF key = None
                THEN calls[c].pc = "raised" /\ calls[c].error = "TypeError"
                ELSE /\ calls[c].error # "TypeError"
                     /\ calls[c].authorized =
                            [i \in 1..Len(calls[c].requests) |->
                                api_key_authorize(calls[c].requests[i], key)]

\* C4: by-key dispatch with api_key=None and no default key set fails with
\* the credentials-missing error before any transport activity: the step
\* that enters it also leaves it, raising TypeError, with no Session created
\* (active_session as it was), Session.send not called and no Request
\* authorized.
C4_NoKeyFailsBeforeTransport ==
    [][\A c \in Slots :
          (/\ calls[c].pc = "idle"
           /\ calls'[c].op = "as_api_key"
           /\ calls'[c].override = None
           /\ api_key = None)
              => /\ calls'[c].pc = "raised"
                 /\ calls'[c].error = "TypeError"
                 /\ calls'[c].authorized = <<>>
                 /\ calls'[c].sends = 0
                 /\ calls'[c].factory_calls = 0
                 /\ ~calls'[c].send_out.done
                 /\ UNCHANGED <<active_session, sessions, factory_calls>>]_vars

\* C4's case: such a call has failed on an orchestrator whose Session an
\* earlier call had created, and that Session is still the active one.
C4_Witness ==
    \E c \in Slots :
        /\ calls[c].op = "as_api_key" /\ calls[c].override = None
        /\ api_key = None
        /\ calls[c].pc = "raised" /\ calls[c].error = "TypeError"
        /\ active_session # None

\* C5: by-identity dispatch with no user_creds override and no stored
\* default fails with the credentials-missing error before any network
\* call: the step that enters it also leaves it, raising TypeError, with no
\* expiry check, no refresh exchange, no Session created, Session.send not
\* called, and the orchestrator's state unchanged.
C5_NoUserCredsFailsBeforeNetwork ==
    [][\A c \in Slots :
          (/\ calls[c].pc = "idle"
           /\ calls'[c].op = "as_user"
           /\ calls'[c].override = None
           /\ user_creds = None)
              => /\ calls'[c].pc = "raised"
                 /\ calls'[c].error = "TypeError"
                 /\ calls'[c].expiry_checks = 0
                 /\ calls'[c].refreshes = 0
                 /\ ~calls'[c].refresh_out.done
                 /\ calls'[c].authorized = <<>>
                 /\ calls'[c].sends = 0
                 /\ calls'[c].factory_calls = 0
                 /\ UNCHANGED <<session_factory, active_session, api_key,
                                user_creds, client_creds, sessions,
                                factory_calls>>]_vars

\* C5's case: such a call has failed while another call is suspended in
\* Session.send.
C5_Witness ==
    \E c, d \in Slots :
        /\ calls[c].op = "as_user" /\ calls[c].override = None
        /\ user_creds = None
        /\ calls[c].pc = "raised" /\ calls[c].error = "TypeError"
        /\ calls[d].pc = "send"

\* The by-identity calls that got past the credentials-missing test.
UserCalls == {c \in Slots : calls[c].op = "as_user" /\ calls[c].resolved # None}

\* `requests` as as_user is to authorize them with creds.
Bearing(requests, creds) ==
    [i \in 1..Len(requests) |->
        [requests[i] EXCEPT !.authorization =
            [bearer |-> creds.access_token, user |-> creds.user]]]

\* C6: a by-identity dispatch whose effective UserCreds is expired performs
\* exactly one refresh exchange; while that exchange is pending no Request
\* is authorized or handed to the Session, and once it has succeeded every
\* Request of the batch bears the refreshed credentials.  A call whose
\* credentials are not expired performs no refresh exchange.
C6_OneRefreshBeforeAuthorizing ==
    \A c \in UserCalls :
        LET f == calls[c]
        IN  /\ f.expiry_checks = 1
            /\ IF is_expired(f.resolved)
               THEN /\ f.refreshes = 1
                    /\ ~f.refresh_out.done
                          => f.pc = "refresh" /\ f.authorized = <<>> /\ f.sends = 0
                    /\ (f.refresh_out.done /\ f.refresh_out.error = "")
                          => /\ ~is_expired(f.refresh_out.value)
                             /\ f.authorized = Bearing(f.requests, f.refresh_out.value)
                             /\ f.sends = 1 => f.sent = f.authorized
                    /\ (f.refresh_out.done /\ f.refresh_out.error # "")
                          => f.authorized = <<>> /\ f.sends = 0
               ELSE /\ f.refreshes = 0
                    /\ ~f.refresh_out.done
                    /\ f.authorized = Bearing(f.requests, f.resolved)

\* C6's case: a call that found its credentials expired is suspended in
\* Session.send with the longest batch, after its one refresh exchange.
C6_Witness ==
    \E c \in UserCalls :
        /\ is_expired(calls[c].resolved)
        /\ calls[c].pc = "send"
        /\ calls[c].refreshes = 1
        /\ Len(calls[c].sent) = MaxBatch
        /\ \A i \in 1..MaxBatch : calls[c].sent[i].authorization.bearer = c

\* The batch op's strategy makes of `requests`: bearer authorization with
\* the call's credentials, injection of a key, or nothing.
Strategy(f) ==
    CASE f.op = "as_user" -> Bearing(f.requests, f.user_creds)
      [] f.op = "as_api_key" ->
            [i \in 1..Len(f.requests) |->
                [f.requests[i] EXCEPT !.key = f.sent[i].key]]
      [] f.op = "as_anon" -> f.requests

\* C7: the batch each dispatch entry point hands to Session.send has the
\* length of the input batch and holds, at each place, the input Request of
\* that place transformed by the entry point's strategy (a bearer header,
\* an injected key, nothing); what the entry point returns is what
\* Session.send returned.
C7_BatchInOrderResultPassedThrough ==
    \A c \in Dispatches :
        LET f == calls[c]
        IN  /\ f.sends >= 1
               => /\ Len(f.sent) = Len(f.requests)
                  /\ f.sent = Strategy(f)
                  /\ f.op = "as_api_key"
                        => \A i \in 1..Len(f.sent) :
                              /\ f.sent[i].key # None
                              /\ f.sent[i].key \in {api_key, f.override}
            /\ f.pc = "returned"
               => /\ f.sends >= 1 /\ f.send_out.done /\ f.send_out.error = ""
                  /\ f.result = f.send_out.value
                  /\ Len(f.result) = Len(f.requests)

\* C7's case: a by-identity call has returned the Responses to the longest
\* batch.
C7_Witness ==
    \E c \in Dispatches :
        /\ calls[c].op = "as_user"
        /\ calls[c].pc = "returned"
        /\ Len(calls[c].requests) = MaxBatch
        /\ MaxBatch >= 2
        /\ calls[c].result = Responses(Strategy(calls[c]))

\* The refresh exchanges begun so far, over all calls.
RECURSIVE RefreshesUpTo(_)
RefreshesUpTo(n) == IF n = 0 THEN 0 ELSE calls[n].refreshes + RefreshesUpTo(n - 1)

RefreshExchanges == RefreshesUpTo(MaxCalls)

\* C8: refresh is not serialized across dispatch calls.  Every by-identity
\* call that observes expired credentials performs a refresh exchange of its
\* own, whatever the other calls are doing, so there are as many exchanges
\* as such calls; two calls on the same expired credentials make two.
C8_RefreshPerObservingCall ==
    /\ \A c \in UserCalls : is_expired(calls[c].resolved) <=> calls[c].saw_expired
    /\ RefreshExchanges =
          Cardinality({c \in UserCalls : is_expired(calls[c].resolved)})

\* C8's case: two calls on the same expired credentials are both suspended
\* in their own refresh exchange.
C8_Witness ==
    \E c, d \in UserCalls :
        /\ c # d
        /\ calls[c].pc = "refresh" /\ calls[d].pc = "refresh"
        /\ calls[c].resolved = calls[d].resolved
        /\ RefreshExchanges = 2

\* C9: when the refresh exchange of a by-identity dispatch fails, the step
\* that resumes the call leaves it by that failure, with the one exchange
\* made, no Request authorized or handed to the Session, and the
\* orchestrator's stored default (and its session) as they were.
C9_RefreshFailureSurfaces ==
    [][\A c \in Slots :
          (/\ calls[c].pc = "refresh"
           /\ calls'[c].refresh_out.done
           /\ calls'[c].refresh_out.error # "")
              => /\ calls'[c].pc = "raised"
                 /\ calls'[c].error = calls'[c].refresh_out.error
                 /\ calls'[c].refreshes = 1
                 /\ calls'[c].authorized = <<>>
                 /\ calls'[c].sends = 0
                 /\ calls'[c].factory_calls = 0
                 /\ UNCHANGED <<user_creds, active_session, sessions,
                                factory_calls>>]_vars

\* C9's case: a call on the stored default has failed by its refresh
\* exchange, and the stored default is still the expired one.
C9_Witness ==
    \E c \in UserCalls :
        /\ calls[c].override = None
        /\ calls[c].refresh_out.error = "AuthError"
        /\ calls[c].pc = "raised"
        /\ user_creds = calls[c].resolved

\* The exceptions that leave a dispatch call before it reaches Session.send:
\* credentials missing, a failed refresh exchange, a Session that cannot be
\* constructed.
BeforeSend == {"TypeError", "AuthError", "RuntimeError"}

TimedOut == {c \in Dispatches : calls[c].error = "TimeoutError"}

\* C11: a dispatch call that ends in a timeout failure propagates it and
\* leaves the Session whole: the timeout is what the call raises, the
\* active session is still the one Session the factory made, and a dispatch
\* begun afterwards is handed to that Session with no new invocation of the
\* factory.
C11_TimeoutLeavesSessionWhole ==
    [][\A c \in Slots :
          /\ (calls[c].pc = "send" /\ calls'[c].send_out.error = "TimeoutError")
                => /\ calls'[c].pc = "raised"
                   /\ calls'[c].error = "TimeoutError"
                   /\ active_session' = active_session
                   /\ active_session' = calls'[c].session
                   /\ sessions' = sessions /\ Len(sessions') = 1
          /\ (TimedOut # {} /\ calls[c].pc = "idle" /\ calls'[c].pc # "idle")
                => /\ factory_calls' = factory_calls
                   /\ active_session' = active_session
                   /\ Len(sessions') = 1
                   /\ calls'[c].factory_calls = 0
                   /\ calls'[c].pc \in {"send", "entered"}
                         => calls'[c].session = active_session]_vars

\* C11's case: one call has timed out and a later call, which invoked no
\* factory, is suspended in Session.send on the same Session, the only one
\* ever made.
C11_Witness ==
    \E c, d \in Dispatches :
        /\ c < d
        /\ calls[c].error = "TimeoutError"
        /\ calls[d].pc = "send"
        /\ calls[d].sends = 1
        /\ calls[d].factory_calls = 0
        /\ calls[d].session = calls[c].session
        /\ factory_calls = 1

\* The scopes that were entered, and those of them that were left.
ScopesEntered == {c \in Slots : calls[c].op = "scope" /\ calls[c].session # None}

ScopesLeft == {c \in ScopesEntered : calls[c].pc \in {"returned", "raised"}}

\* C12: every successful scope entry opens the Session once, and every way
\* out of the scope, the failure of its body included, releases it once:
\* the Session has been entered as often as scopes were entered and released
\* as often as scopes were left, and a scope still open can always be left.
C12_EveryEntryReleasedOnce ==
    /\ ScopesEntered # {} => active_session # None
    /\ active_session # None
          => /\ sessions[active_session.id].enters = Cardinality(ScopesEntered)
             /\ sessions[active_session.id].exits = Cardinality(ScopesLeft)
    /\ \A c \in ScopesEntered :
          /\ calls[c].session = active_session
          /\ calls[c].pc \in {"entered", "returned", "raised"}
          /\ calls[c].pc = "entered" => ENABLED aexit(c)
          /\ calls[c].pc = "raised" => calls[c].error \in BodyOutcomes
    /\ \A c \in Slots :
          (calls[c].op = "scope" /\ calls[c].session = None)
              => calls[c].pc = "raised" /\ calls[c].error = "RuntimeError"

\* C12's case: a scope whose body failed has been left, and the Session it
\* had entered has been released once.
C12_Witness ==
    \E c \in ScopesLeft :
        /\ calls[c].pc = "raised"
        /\ calls[c].error = "HTTPError"
        /\ sessions[calls[c].session.id].enters = 1
        /\ sessions[calls[c].session.id].exits = 1

\* The calls that got as far as needing the Session: those that invoked the
\* factory or were handed the Session it had made.
NeededSession ==
    {c \in Slots : calls[c].factory_calls > 0 \/ calls[c].session # None}

\* C13: constructing a Session class whose send is not a coroutine function
\* raises the interface-contract error (RuntimeError) at construction, so no
\* instance of it ever exists, becomes the active session or is handed a
\* batch; a class whose send is a coroutine function constructs normally.
C13_NonCoroutineSendNeverConstructed ==
    IF session_factory.send_is_coroutine
    THEN /\ \A c \in Slots : calls[c].error # "RuntimeError"
         /\ \A c \in NeededSession :
               calls[c].session = active_session /\ active_session # None
         /\ factory_calls = Len(sessions)
    ELSE /\ sessions = <<>>
         /\ active_session = None
         /\ \A c \in Slots :
               /\ calls[c].sends = 0
               /\ calls[c].session = None
               /\ calls[c].pc \notin {"send", "entered", "returned"}
         /\ \A c \in NeededSession :
               calls[c].pc = "raised" /\ calls[c].error = "RuntimeError"
         /\ factory_calls = Cardinality(NeededSession)

\* C13's case: with such a class as the factory, an anonymous dispatch and a
\* scope entry have both been left by the construction error.
C13_Witness ==
    /\ ~session_factory.send_is_coroutine
    /\ \E c, d \in Slots :
          /\ calls[c].op = "as_anon" /\ calls[c].error = "RuntimeError"
          /\ calls[d].op = "scope" /\ calls[d].error = "RuntimeError"
          /\ calls[c].authorized # <<>>
    /\ factory_calls = 2
    /\ sessions = <<>>

\* C14: discover given an api_version calls as_anon exactly once, with getRest
\* for that name and version; given none it calls as_anon with
\* list_api(name, preferred=True) and then, once, with getRest for the name
\* and version of the first listed item, and has made both dispatches when
\* it returns; a list with no items ends it with ValueError ("Invalid API
\* name") after the one list dispatch.
C14_DiscoverDispatchesInOrder ==
    \A c \in Slots :
        LET f == calls[c]
        IN  f.op = "discover" =>
            /\ f.sends <= Len(f.anon_calls)
            /\ f.sends > 0 => f.sent = <<f.anon_calls[f.sends]>>
            /\ IF f.api_version # None
               THEN /\ f.anon_calls =
                          <<apis_getRest(ApiName, f.api_version.version)>>
                    /\ f.discovery_list = None
                    /\ f.pc = "returned" => f.sends = 1
               ELSE /\ Len(f.anon_calls) \in {1, 2}
                    /\ f.anon_calls[1] = apis_list(ApiName, TRUE)
                    /\ Len(f.anon_calls) = 2 =>
                          /\ f.discovery_list # None
                          /\ f.discovery_list.items # <<>>
                          /\ f.anon_calls[2] =
                                apis_getRest(f.discovery_list.items[1].name,
                                             f.discovery_list.items[1].version)
                    /\ f.pc = "returned" => f.sends = 2
                    /\ (f.discovery_list # None
                            /\ f.discovery_list.items = <<>>) =>
                          /\ f.pc = "raised"
                          /\ f.error = "ValueError"
                          /\ f.anon_calls = <<apis_list(ApiName, TRUE)>>
                          /\ f.sends = 1

\* A discover given no version has returned the document of the first of
\* the two versions listed, while another was ended by an empty list.
C14_Witness ==
    \E c, d \in Slots :
        /\ calls[c].op = "discover"
        /\ calls[c].api_version = None
        /\ calls[c].pc = "returned"
        /\ Len(calls[c].discovery_list.items) = 2
        /\ calls[c].sends = 2
        /\ calls[d].op = "discover"
        /\ calls[d].error = "ValueError"

\* The UserCreds call c of as_user, with frame f, is to authorize with: what
\* it resolved at its entry or, once its own refresh exchange has succeeded,
\* what that exchange made of them.
OwnUserCreds(f, c) ==
    IF f.refresh_out.done /\ f.refresh_out.error = ""
    THEN refresh(f.resolved, c)
    ELSE f.resolved

\* C15: a by-identity dispatch resolves its credentials in the step it is
\* entered by (the override if one is passed, else the stored default of
\* that moment) and keeps them whatever other calls store afterwards; every
\* Request of its batch bears those credentials, or those its own refresh
\* exchange returned, and none bears what another call has written.
C15_CredentialsFixedAtEntry ==
    [][\A c \in Slots :
          /\ (calls[c].pc = "idle" /\ calls'[c].op = "as_user")
                => calls'[c].resolved = (IF calls'[c].override # None
                                         THEN calls'[c].override
                                         ELSE user_creds)
          /\ calls[c].op = "as_user"
                => calls'[c].resolved = calls[c].resolved
          /\ (calls'[c].op = "as_user" /\ calls'[c].authorized # <<>>)
                => calls'[c].authorized =
                       Bearing(calls'[c].requests,
                               OwnUserCreds(calls'[c], c))]_vars

\* Two calls took the same stored default; each has authorized its batch
\* with the result of its own refresh, and the one stored last is not what
\* the other's Requests bear.
C15_Witness ==
    \E c, d \in Slots :
        /\ c # d
        /\ calls[c].op = "as_user" /\ calls[d].op = "as_user"
        /\ calls[c].override = None /\ calls[d].override = None
        /\ calls[c].sends = 1 /\ calls[d].sends = 1
        /\ calls[c].refresh_out.value # None
        /\ calls[d].refresh_out.value # None
        /\ user_creds = calls[d].refresh_out.value
        /\ calls[c].authorized = Bearing(calls[c].requests,
                                         calls[c].refresh_out.value)
        /\ calls[c].refresh_out.value # user_creds

\* The active session has been released by the exit of a scope.
Released ==
    /\ active_session # None
    /\ sessions[active_session.id].exits > 0

\* C16: once active_session is set no step replaces or unsets it, the exit
\* of a scope included; a dispatch or a scope entry begun after the Session
\* was released invokes no factory and is handed to, or enters, that same
\* released Session.
C16_ActiveSessionNeverReplaced ==
    [][/\ active_session # None => active_session' = active_session
       /\ \A c \in Slots :
             (Released /\ calls[c].pc = "idle" /\ calls'[c].pc # "idle")
                => /\ factory_calls' = factory_calls
                   /\ Len(sessions') = Len(sessions)
                   /\ calls'[c].factory_calls = 0
                   /\ calls'[c].pc \in {"send", "entered"}
                         => calls'[c].session = active_session]_vars

\* A scope has been left and its Session released; that Session is still
\* the active one, the only one ever made, and a dispatch is suspended in
\* its send.
C16_Witness ==
    \E c, d \in Slots :
        /\ c < d
        /\ calls[c].op = "scope"
        /\ calls[c].pc \in {"returned", "raised"}
        /\ calls[c].session = active_session
        /\ Released
        /\ sessions[active_session.id].enters = sessions[active_session.id].exits
        /\ calls[d].op \in {"as_user", "as_api_key", "as_anon"}
        /\ calls[d].pc = "send"
        /\ calls[d].session = active_session
        /\ Len(sessions) = 1

\* The step is call c of as_user, whose credentials were expired, resumed by
\* the success of its refresh exchange.
RefreshBranch(c) ==
    /\ calls[c].op = "as_user"
    /\ calls[c].pc = "refresh"
    /\ is_expired(calls[c].resolved)
    /\ calls'[c].refresh_out.done
    /\ calls'[c].refresh_out.error = ""

\* C17: no step changes the stored api_key or client_creds, and the stored
\* user_creds changes only in the refresh branch of as_user, to what that
\* call's refresh returned: every other step of as_user, and every step of
\* as_api_key, as_anon, discover, list_api, __aenter__ and __aexit__,
\* whether it returns or raises, leaves all three as they were.
C17_StoredCredentialsChangeOnlyByRefresh ==
    [][/\ api_key' = api_key
       /\ client_creds' = client_creds
       /\ \A c \in Slots :
             calls'[c] # calls[c] =>
                IF RefreshBranch(c)
                THEN user_creds' \in {user_creds, calls'[c].refresh_out.value}
                ELSE user_creds' = user_creds]_vars

\* The stored user_creds are what a call's refresh returned, and a call of
\* another entry point has failed in send.
C17_Witness ==
    \E c, d \in Slots :
        /\ calls[c].op = "as_user"
        /\ calls[c].refresh_out.done
        /\ calls[c].refresh_out.error = ""
        /\ user_creds = calls[c].refresh_out.value
        /\ calls[d].op \in {"as_api_key", "as_anon", "discover", "list_api"}
        /\ calls[d].pc = "raised"
        /\ calls[d].sends > 0

====
